---- MODULE Spec2Model ----
(***************************************************************************)
(* A model of bot.go: one Bot value shared by the goroutines main (the     *)
(* stream reader), ConsoleInput (started twice by main) and Automessage.   *)
(* Text is kept as strings and handled with the operations the code uses   *)
(* (Split, HasPrefix, Contains, Replace, ToLower).  Time is the Unix clock *)
(* in whole seconds; the model keeps the distances the code compares       *)
(* (seconds since bot.lastMsg, seconds left of a Sleep) instead of the     *)
(* absolute readings, so the clock itself needs no bound.                  *)
(* Message texts are assumed to hold no '%': the code passes them to       *)
(* Fprintf as the format, which leaves such text unchanged.                *)
(***************************************************************************)
EXTENDS Integers, Sequences, FiniteSets, TLC

(* ---- bounds of the model ---- *)
MaxLines == 1        \* inputs of the environment: console lines, stream lines, a drop
MaxAuto == 1         \* firings of the auto-broadcast timer
MaxDialFails == 1    \* failed dials before the successful one
MaxLag == 1          \* seconds a goroutine that can take a step may let pass before it

(* ---- constants of the program ---- *)
maxMsgTime == 3
retrySleep == 5
dialSleep == 10
autoMsgCount == 1
secondsPerMinute == 60
defaultChannel == "adefault"
flagChannel == "ajs94"
automsg == "This is an automessage message"
farewell == "Shutting down bot :("
mods == {}
suffixes == <<".com", ".net", ".org", ".tv", ".fm", ".gg">>
\* the credential literal of the source is not reproduced; only its place in the line matters
passLine == "PASS " \o "oauth:credential" \o "\r\n"
nickLine == "NICK " \o "testbot" \o "\r\n"
joinLine == "JOIN " \o "#ajs94" \o "\r\n"

(* ---- package strings ---- *)
Min(S) == CHOOSE m \in S : \A n \in S : m <= n

HasPrefix(s, prefix) ==
    Len(s) >= Len(prefix) /\ SubSeq(s, 1, Len(prefix)) = prefix

\* position of the first occurrence of sub in s, 0 when there is none
Index(s, sub) ==
    LET I == { i \in 1..(Len(s) - Len(sub) + 1) : SubSeq(s, i, i + Len(sub) - 1) = sub }
    IN  IF I = {} THEN 0 ELSE Min(I)

Contains(s, sub) == Index(s, sub) # 0

RECURSIVE Split(_, _)
Split(s, sep) ==
    LET i == Index(s, sep)
    IN  IF i = 0 THEN << s >>
        ELSE << SubSeq(s, 1, i - 1) >> \o Split(SubSeq(s, i + Len(sep), Len(s)), sep)

\* strings.Replace(s, old, new, 1)
Replace1(s, old, new) ==
    LET i == Index(s, old)
    IN  IF i = 0 THEN s
        ELSE SubSeq(s, 1, i - 1) \o new \o SubSeq(s, i + Len(old), Len(s))

upperLetters == "ABCDEFGHIJKLMNOPQRSTUVWXYZ"
lowerLetters == "abcdefghijklmnopqrstuvwxyz"

RECURSIVE ToLower(_)
ToLower(s) ==
    IF Len(s) = 0 THEN s
    ELSE LET c == SubSeq(s, 1, 1)
             i == Index(upperLetters, c)
         IN  (IF i = 0 THEN c ELSE SubSeq(lowerLetters, i, i))
                 \o ToLower(SubSeq(s, 2, Len(s)))

(* ---- isWebsite ---- *)
isWebsite(theWebsite) ==
    \E k \in 1..Len(suffixes) : Contains(theWebsite, suffixes[k])

(* ---- the lines the environment can deliver ---- *)
\* a chat line of the stream, as the server sends it for user and message
ChatLine(user, message) ==
    ":" \o user \o "!" \o user \o "@" \o user \o ".tmi.twitch.tv PRIVMSG #ajs94 :" \o message

ChatUsers == { "bob", "ajs94" }

ChatMessages ==
    { "!timeout ann", "!ban ann", "!unban ann", "!ban ajs94", "!unban", "!bandit ann",
      "!BAN Ann", "spam.com", "check out spam.com", "hello there" }

\* lines of the stream, as textproto.Reader.ReadLine returns them (line end removed)
InboundLines ==
    { ChatLine(u, m) : u \in ChatUsers, m \in ChatMessages } \cup
    { "PING :tmi.twitch.tv",
      "PING",
      ":bob!bob@bob.tmi.twitch.tv JOIN #ajs94",
      ":bob!bob@bob.tmi.twitch.tv PART #ajs94",
      ":tmi.twitch.tv 001 testbot :Welcome, GLHF!",
      ":tmi.twitch.tv CAP",
      "" }

\* lines of the console, as bufio.Reader.ReadString('\n') returns them (line end
\* kept); "" is what it returns at the end of the input
ConsoleLines ==
    { "hi\n",
      "\n",
      "",
      "!quit\n",
      "!timeout ann\n",
      "!ban ann\n",
      "!unban ann\n",
      "!timeout ajs94\n",
      "!unban ajs94 now\n",
      "!ban\n" }

(* ---- state ---- *)
Goroutines == { "main", "con1", "con2", "auto" }
Consoles == { "con1", "con2" }

VARIABLES
    proc,          \* "running", "crashed" (panic), "exited" (os.Exit), "ended" (main returned)
    panicIn,       \* the goroutine that panicked, "none" before
    conn,          \* bot.conn: "nil", "open", "broken" (reset by the server), "closed"
    closes,        \* calls of bot.conn.Close() so far
    channel,       \* bot.channel
    sinceLastMsg,  \* min(time.Now().Unix() - bot.lastMsg, maxMsgTime)
    pc,            \* where each goroutine stands
    todo,          \* per goroutine: the Message calls its handler still makes, head first
    ret,           \* per goroutine: what follows the last Message call ("loop" or "quit")
    timer,         \* per goroutine: seconds left of its time.Sleep
    cur,           \* per goroutine: index in events of the input it is handling
    sid,           \* per goroutine: index in subs of the Message call it is in
    budget,        \* inputs the environment may still deliver
    autoFired,     \* firings of the auto-broadcast so far
    dialFails,     \* failed dials of the running Connect so far
    events,        \* history: the inputs taken, in order
    subs,          \* history: the calls of Message with non-recursive entry, in order
    wire,          \* history: what was written to the connection, in order
    sinceWrite,    \* min(seconds since the last PRIVMSG write, maxMsgTime)
    failed,        \* history: the writes that returned an error (dropped by the code), in
                   \* order, each with the state of bot.conn it was made on
    lag            \* seconds passed while some goroutine could take a step

vars == << proc, panicIn, conn, closes, channel, sinceLastMsg, pc, todo, ret, timer,
           cur, sid, budget, autoFired, dialFails, events, subs, wire, sinceWrite, failed,
           lag >>

\* NewBot followed by main's first statement, go bot.ConsoleInput()
Init ==
    /\ proc = "running"
    /\ panicIn = "none"
    /\ conn = "nil"
    /\ closes = 0
    /\ channel = defaultChannel
    /\ sinceLastMsg = maxMsgTime
    /\ pc = [ g \in Goroutines |->
                IF g = "main" THEN "dial" ELSE IF g = "con1" THEN "readline" ELSE "off" ]
    /\ todo = [ g \in Goroutines |-> << >> ]
    /\ ret = [ g \in Goroutines |-> "loop" ]
    /\ timer = [ g \in Goroutines |-> 0 ]
    /\ cur = [ g \in Goroutines |-> 0 ]
    /\ sid = [ g \in Goroutines |-> 0 ]
    /\ budget = MaxLines
    /\ autoFired = 0
    /\ dialFails = 0
    /\ events = << >>
    /\ subs = << >>
    /\ wire = << >>
    /\ sinceWrite = maxMsgTime
    /\ failed = << >>
    /\ lag = 0

(* ---- isModerator, timeout, ban, unban, ParseCommand ---- *)
yourChannel == Replace1(channel, "#", "")

isModerator(username) == username \in mods \/ username = yourChannel

\* the three functions give the Message calls they make, in order
timeout(username) ==
    IF isModerator(username) THEN << >>
    ELSE << "/timeout " \o username, "Timed out user: " \o username >>

\* ban with its two Message calls exchanged
banConfirmationFirst(username) ==
    IF isModerator(username) THEN << >>
    ELSE << "Banned user: " \o username, "/ban " \o username >>

ban(username) ==
    IF isModerator(username) THEN << >>
    ELSE << "/ban " \o username, "Banned user: " \o username >>

unban(username) ==
    IF isModerator(username) THEN << >>
    ELSE << "/unban " \o username, "Unbanned user: " \o username >>

\* the outcome of a handler: it panics, or it makes these Message calls and,
\* for the ping branch, this direct write
Panic == [ panic |-> TRUE, msgs |-> << >>, direct |-> << >> ]
Calls(m) == [ panic |-> FALSE, msgs |-> m, direct |-> << >> ]
\* the ping reply handed to Message instead of written to the connection
DirectThroughMessage(d) == [ panic |-> FALSE, msgs |-> << d >>, direct |-> << >> ]
Direct(d) == [ panic |-> FALSE, msgs |-> << >>, direct |-> << d >> ]

\* ParseCommand without the check of the issuer
ParseCommandUnchecked(user, theCommand) ==
    LET command == ToLower(theCommand)
        userinfo == Split(theCommand, " ")
    IN  IF HasPrefix(command, ":!timeout") \/ HasPrefix(command, "!timeout")
        THEN IF Len(userinfo) < 2 THEN Panic ELSE Calls(timeout(userinfo[2]))
        ELSE IF HasPrefix(command, ":!ban") \/ HasPrefix(command, "!ban")
        THEN IF Len(userinfo) < 2 THEN Panic ELSE Calls(ban(userinfo[2]))
        ELSE IF HasPrefix(command, ":!unban") \/ HasPrefix(command, "!unban")
        THEN IF Len(userinfo) < 2 THEN Panic ELSE Calls(unban(userinfo[2]))
        ELSE Calls(<< >>)

ParseCommand(user, theCommand) ==
    IF isModerator(user)
    THEN LET command == ToLower(theCommand)
             userinfo == Split(theCommand, " ")
         IN  IF HasPrefix(command, ":!timeout") \/ HasPrefix(command, "!timeout")
             THEN IF Len(userinfo) < 2 THEN Panic ELSE Calls(timeout(userinfo[2]))
             ELSE IF HasPrefix(command, ":!ban") \/ HasPrefix(command, "!ban")
             THEN IF Len(userinfo) < 2 THEN Panic ELSE Calls(ban(userinfo[2]))
             ELSE IF HasPrefix(command, ":!unban") \/ HasPrefix(command, "!unban")
             THEN IF Len(userinfo) < 2 THEN Panic ELSE Calls(unban(userinfo[2]))
             ELSE Calls(<< >>)
    ELSE Calls(<< "You are not a mod " \o user >>)

(* ---- the body of main's read loop, for one line ---- *)
mainLoopBody(line) ==
    LET msgParts == Split(line, " ")
        joinMark == ".tmi.twitch.tv JOIN " \o channel
        partMark == ".tmi.twitch.tv PART " \o channel
        privMark == ".tmi.twitch.tv PRIVMSG " \o channel
        userdata == Split(line, privMark)
        username == Split(userdata[1], "@")
    IN  IF msgParts[1] = "PING"
        THEN IF Len(msgParts) < 2 THEN Panic ELSE Direct("PONG " \o msgParts[2])
        ELSE IF Contains(line, joinMark)
        THEN LET userinfo == Split(Split(line, joinMark)[1], "@")
             IN  IF Len(userinfo) < 2 THEN Panic
                 ELSE Calls(<< "PogChamp User Joined: " \o userinfo[2] >>)
        ELSE IF Contains(line, partMark)
        THEN LET userinfo == Split(Split(line, partMark)[1], "@")
             IN  IF Len(userinfo) < 2 THEN Panic
                 ELSE Calls(<< "BibleThump User Left: " \o userinfo[2] >>)
        ELSE IF Len(msgParts) < 4 THEN Panic
        ELSE IF HasPrefix(msgParts[4], ":!")
        THEN IF Len(userdata) < 2 \/ Len(username) < 2 THEN Panic
             ELSE ParseCommand(username[2], Replace1(userdata[2], " :", ""))
        ELSE IF isWebsite(msgParts[4])
        THEN IF Len(username) < 2 THEN Panic ELSE Calls(timeout(username[2]))
        ELSE Calls(<< >>)

(* ---- the body of ConsoleInput's loop, for one line ---- *)
consoleLoopBody(text) ==
    IF HasPrefix(text, "!quit") THEN Calls(<< farewell >>)
    ELSE IF HasPrefix(text, "!") THEN ParseCommand(Replace1(channel, "#", ""), text)
    ELSE IF text # "" THEN Calls(<< text >>)
    ELSE Calls(<< >>)

(* ---- steps shared by the goroutines ---- *)
Running == proc = "running"

ClockUp(t) == IF t < maxMsgTime THEN t + 1 ELSE maxMsgTime

\* the loop a goroutine returns to after its handler
LoopPc(g) == IF g = "main" THEN "read" ELSE IF g = "auto" THEN "sleepAuto" ELSE "readline"
LoopTimer(g) == IF g = "auto" THEN autoMsgCount * secondsPerMinute ELSE 0

\* a write on bot.conn goes out only on an open connection
Delivered == conn = "open"

\* the handshake is written and the connection has not been closed
SessionRunning ==
    /\ conn = "open"
    /\ pc["main"] \notin { "dial", "backoff", "connected", "config", "pass", "nick", "join",
                            "go", "return" }

\* the handler of g, for input e, starts the Message calls m (none: back to the
\* loop), then does r
Start(g, e, m, r) ==
    /\ todo' = [todo EXCEPT ![g] = m]
    /\ IF m = << >>
       THEN /\ pc' = [pc EXCEPT ![g] = IF r = "quit" THEN "close" ELSE LoopPc(g)]
            /\ timer' = [timer EXCEPT ![g] = IF r = "quit" THEN 0 ELSE LoopTimer(g)]
            /\ ret' = [ret EXCEPT ![g] = "loop"]
            /\ UNCHANGED << subs, sid >>
       ELSE /\ pc' = [pc EXCEPT ![g] = "msg"]
            /\ timer' = [timer EXCEPT ![g] = 0]
            /\ ret' = [ret EXCEPT ![g] = r]
            /\ subs' = Append(subs, [ev |-> e, text |-> Head(m), up |-> SessionRunning])
            /\ sid' = [sid EXCEPT ![g] = Len(subs) + 1]

\* Message returns: the handler of g goes on with its next call
Return(g) == Start(g, cur[g], Tail(todo[g]), ret[g])

(* ---- Bot.Message ---- *)
\* Message without its test for the empty message
MessageCheckNoEmptyTest(g) ==
    /\ Running /\ pc[g] = "msg"
    /\ lag' = 0
    /\ UNCHANGED failed
    /\ IF sinceLastMsg >= maxMsgTime
       THEN /\ pc' = [pc EXCEPT ![g] = "write"]
            /\ UNCHANGED timer
       ELSE /\ pc' = [pc EXCEPT ![g] = "wait"]
            /\ timer' = [timer EXCEPT ![g] = retrySleep]
    /\ UNCHANGED << todo, ret, subs, sid >>
    /\ UNCHANGED << proc, panicIn, conn, closes, channel, sinceLastMsg, cur, budget,
                    autoFired, dialFails, events, wire, sinceWrite >>

\* lines 90-93 and 97-98: the empty check and the cooldown check
MessageCheck(g) ==
    /\ Running /\ pc[g] = "msg"
    /\ lag' = 0
    /\ UNCHANGED failed
    /\ IF Head(todo[g]) = ""
       THEN Return(g)
       ELSE /\ IF sinceLastMsg >= maxMsgTime
               THEN /\ pc' = [pc EXCEPT ![g] = "write"]
                    /\ UNCHANGED timer
               ELSE /\ pc' = [pc EXCEPT ![g] = "wait"]
                    /\ timer' = [timer EXCEPT ![g] = retrySleep]
            /\ UNCHANGED << todo, ret, subs, sid >>
    /\ UNCHANGED << proc, panicIn, conn, closes, channel, sinceLastMsg, cur, budget,
                    autoFired, dialFails, events, wire, sinceWrite >>

\* line 95: the Fprintf on bot.conn; a nil bot.conn panics
MessageWrite(g) ==
    /\ Running /\ pc[g] = "write"
    /\ lag' = 0
    /\ IF conn = "nil"
       THEN /\ proc' = "crashed"
            /\ panicIn' = g
            /\ UNCHANGED << pc, wire, sinceWrite, failed >>
       ELSE /\ pc' = [pc EXCEPT ![g] = "stamp"]
            /\ LET data == "PRIVMSG " \o channel \o " :" \o Head(todo[g]) \o "\r\n"
               IN  IF Delivered
                   THEN /\ wire' = Append(wire, [ data |-> data, sub |-> sid[g],
                                                  gap |-> sinceWrite ])
                        /\ sinceWrite' = 0
                        /\ UNCHANGED failed
                   ELSE /\ failed' = Append(failed, [ data |-> data, sub |-> sid[g], on |-> conn ])
                        /\ UNCHANGED << wire, sinceWrite >>
            /\ UNCHANGED << proc, panicIn >>
    /\ UNCHANGED << conn, closes, channel, sinceLastMsg, todo, ret, timer, cur,
                    sid, budget, autoFired, dialFails, events, subs >>

\* line 96: bot.lastMsg = time.Now().Unix(), and the return
MessageStamp(g) ==
    /\ Running /\ pc[g] = "stamp"
    /\ lag' = 0
    /\ UNCHANGED failed
    /\ sinceLastMsg' = 0
    /\ Return(g)
    /\ UNCHANGED << proc, panicIn, conn, closes, channel, cur, budget, autoFired,
                    dialFails, events, wire, sinceWrite >>

\* lines 98-99: the Sleep is over, Message calls itself
MessageRetry(g) ==
    /\ Running /\ pc[g] = "wait" /\ timer[g] = 0
    /\ lag' = 0
    /\ UNCHANGED failed
    /\ pc' = [pc EXCEPT ![g] = "msg"]
    /\ UNCHANGED << proc, panicIn, conn, closes, channel, sinceLastMsg, todo, ret, timer,
                    cur, sid, budget, autoFired, dialFails, events, subs, wire, sinceWrite >>

(* ---- Bot.Connect and the start of main ---- *)
DialFail ==
    /\ Running /\ pc["main"] = "dial" /\ dialFails < MaxDialFails
    /\ lag' = 0
    /\ UNCHANGED failed
    /\ dialFails' = dialFails + 1
    /\ pc' = [pc EXCEPT !["main"] = "backoff"]
    /\ timer' = [timer EXCEPT !["main"] = dialSleep]
    /\ UNCHANGED << proc, panicIn, conn, closes, channel, sinceLastMsg, todo, ret, cur,
                    sid, budget, autoFired, events, subs, wire, sinceWrite >>

\* Connect without its recursive call: after the wait it returns
RedialGiveUp ==
    /\ Running /\ pc["main"] = "backoff" /\ timer["main"] = 0
    /\ lag' = 0
    /\ UNCHANGED failed
    /\ pc' = [pc EXCEPT !["main"] = "connected"]
    /\ UNCHANGED << proc, panicIn, conn, closes, channel, sinceLastMsg, todo, ret, timer,
                    cur, sid, budget, autoFired, dialFails, events, subs, wire, sinceWrite >>

\* lines 80-81: the Sleep is over, Connect calls itself
Redial ==
    /\ Running /\ pc["main"] = "backoff" /\ timer["main"] = 0
    /\ lag' = 0
    /\ UNCHANGED failed
    /\ pc' = [pc EXCEPT !["main"] = "dial"]
    /\ UNCHANGED << proc, panicIn, conn, closes, channel, sinceLastMsg, todo, ret, timer,
                    cur, sid, budget, autoFired, dialFails, events, subs, wire, sinceWrite >>

\* line 77: net.Dial succeeds in the innermost call of Connect
DialOk ==
    /\ Running /\ pc["main"] = "dial"
    /\ lag' = 0
    /\ UNCHANGED failed
    /\ conn' = "open"
    /\ pc' = [pc EXCEPT !["main"] = "connected"]
    /\ UNCHANGED << proc, panicIn, closes, channel, sinceLastMsg, todo, ret, timer, cur,
                    sid, budget, autoFired, dialFails, events, subs, wire, sinceWrite >>

\* lines 81-84: the calls of Connect return, the innermost first, back into main
ConnectReturn ==
    /\ Running /\ pc["main"] = "connected"
    /\ lag' = 0
    /\ UNCHANGED failed
    /\ dialFails' = 0
    /\ pc' = [pc EXCEPT !["main"] = "config"]
    /\ UNCHANGED << proc, panicIn, conn, closes, channel, sinceLastMsg, todo, ret, timer,
                    cur, sid, budget, autoFired, events, subs, wire, sinceWrite >>

\* lines 215-220: flag.Parse is never called, the flags hold their defaults
Configure ==
    /\ Running /\ pc["main"] = "config"
    /\ lag' = 0
    /\ UNCHANGED failed
    /\ channel' = "#" \o flagChannel
    /\ pc' = [pc EXCEPT !["main"] = "pass"]
    /\ UNCHANGED << proc, panicIn, conn, closes, sinceLastMsg, todo, ret, timer, cur,
                    sid, budget, autoFired, dialFails, events, subs, wire, sinceWrite >>

\* bot.conn.Write(data) with the error dropped
ConnWrite(data) ==
    IF Delivered
    THEN /\ wire' = Append(wire, [ data |-> data, sub |-> 0, gap |-> maxMsgTime ])
         /\ UNCHANGED failed
    ELSE /\ failed' = Append(failed, [ data |-> data, sub |-> 0, on |-> conn ])
         /\ UNCHANGED wire

Handshake(at, data, next) ==
    /\ Running /\ pc["main"] = at
    /\ lag' = 0
    /\ ConnWrite(data)
    /\ pc' = [pc EXCEPT !["main"] = next]
    /\ UNCHANGED << proc, panicIn, conn, closes, channel, sinceLastMsg, todo, ret, timer,
                    cur, sid, budget, autoFired, dialFails, events, subs, sinceWrite >>

WritePass == Handshake("pass", passLine, "nick")
WriteNick == Handshake("nick", nickLine, "join")
WriteJoin == Handshake("join", joinLine, "go")

\* lines 232-236: go bot.Automessage() and the second go bot.ConsoleInput()
StartTasks ==
    /\ Running /\ pc["main"] = "go"
    /\ lag' = 0
    /\ UNCHANGED failed
    /\ pc' = [pc EXCEPT !["main"] = "read", !["auto"] = "sleepAuto", !["con2"] = "readline"]
    /\ timer' = [timer EXCEPT !["auto"] = autoMsgCount * secondsPerMinute]
    /\ UNCHANGED << proc, panicIn, conn, closes, channel, sinceLastMsg, todo, ret, cur,
                    sid, budget, autoFired, dialFails, events, subs, wire, sinceWrite >>

(* ---- main's read loop ---- *)
ReadLine(line) ==
    /\ Running /\ pc["main"] = "read" /\ Delivered /\ budget > 0
    /\ lag' = 0
    /\ UNCHANGED failed
    /\ budget' = budget - 1
    /\ events' = Append(events, [ by |-> "main", line |-> line ])
    /\ cur' = [cur EXCEPT !["main"] = Len(events) + 1]
    /\ pc' = [pc EXCEPT !["main"] = "handle"]
    /\ UNCHANGED << proc, panicIn, conn, closes, channel, sinceLastMsg, todo, ret, timer,
                    sid, autoFired, dialFails, subs, wire, sinceWrite >>

\* lines 241-243 and 232: the read fails, main leaves the loop and its deferred
\* bot.conn.Close() runs
DeferredClose ==
    /\ conn' = "closed"
    /\ closes' = closes + 1
    /\ pc' = [pc EXCEPT !["main"] = "return"]
    /\ UNCHANGED << proc, panicIn, channel, sinceLastMsg, todo, ret, timer, cur, sid,
                    autoFired, dialFails, events, subs, wire, sinceWrite, failed >>

\* the read fails because the connection was closed under it or reset
ReadError ==
    /\ Running /\ pc["main"] = "read" /\ conn \in { "closed", "broken" }
    /\ lag' = 0
    /\ DeferredClose
    /\ UNCHANGED budget

HandleLine ==
    /\ Running /\ pc["main"] = "handle"
    /\ lag' = 0
    /\ LET r == mainLoopBody(events[cur["main"]].line)
       IN  IF r.panic
           THEN /\ proc' = "crashed"
                /\ panicIn' = "main"
                /\ UNCHANGED << pc, todo, ret, timer, sid, subs, wire, failed >>
           ELSE IF r.direct # << >>
           THEN /\ ConnWrite(r.direct[1])
                /\ pc' = [pc EXCEPT !["main"] = "read"]
                /\ UNCHANGED << proc, panicIn, todo, ret, timer, sid, subs >>
           ELSE /\ Start("main", cur["main"], r.msgs, "loop")
                /\ UNCHANGED << proc, panicIn, wire, failed >>
    /\ UNCHANGED << conn, closes, channel, sinceLastMsg, cur, budget, autoFired,
                    dialFails, events, sinceWrite >>

\* main returns and the program ends with it
MainReturn ==
    /\ Running /\ pc["main"] = "return"
    /\ lag' = 0
    /\ UNCHANGED failed
    /\ proc' = "ended"
    /\ UNCHANGED panicIn
    /\ UNCHANGED << conn, closes, channel, sinceLastMsg, pc, todo, ret, timer,
                    cur, sid, budget, autoFired, dialFails, events, subs, wire, sinceWrite >>

(* ---- Bot.ConsoleInput ---- *)
ConsoleLine(g, text) ==
    /\ Running /\ pc[g] = "readline" /\ budget > 0
    /\ lag' = 0
    /\ UNCHANGED failed
    /\ budget' = budget - 1
    /\ events' = Append(events, [ by |-> g, line |-> text ])
    /\ cur' = [cur EXCEPT ![g] = Len(events) + 1]
    /\ LET r == consoleLoopBody(text)
       IN  IF r.panic
           THEN /\ proc' = "crashed"
                /\ panicIn' = g
                /\ UNCHANGED << pc, todo, ret, timer, sid, subs >>
           ELSE /\ Start(g, Len(events) + 1, r.msgs, IF HasPrefix(text, "!quit") THEN "quit" ELSE "loop")
                /\ UNCHANGED << proc, panicIn >>
    /\ UNCHANGED << conn, closes, channel, sinceLastMsg, autoFired, dialFails,
                    wire, sinceWrite >>

\* line 123: bot.conn.Close(); bot.conn is not nil here, the farewell was written on it
ConsoleClose(g) ==
    /\ Running /\ pc[g] = "close"
    /\ lag' = 0
    /\ UNCHANGED failed
    /\ conn' = "closed"
    /\ closes' = closes + 1
    /\ pc' = [pc EXCEPT ![g] = "exit"]
    /\ UNCHANGED << proc, panicIn, channel, sinceLastMsg, todo, ret, timer, cur, sid, budget,
                    autoFired, dialFails, events, subs, wire, sinceWrite >>

\* line 124: os.Exit(0)
ConsoleExit(g) ==
    /\ Running /\ pc[g] = "exit"
    /\ lag' = 0
    /\ UNCHANGED failed
    /\ proc' = "exited"
    /\ UNCHANGED panicIn
    /\ UNCHANGED << conn, closes, channel, sinceLastMsg, pc, todo, ret, timer,
                    cur, sid, budget, autoFired, dialFails, events, subs, wire, sinceWrite >>

(* ---- Bot.Automessage ---- *)
AutoFire ==
    /\ Running /\ pc["auto"] = "sleepAuto" /\ timer["auto"] = 0 /\ autoFired < MaxAuto
    /\ lag' = 0
    /\ UNCHANGED failed
    /\ autoFired' = autoFired + 1
    /\ events' = Append(events, [ by |-> "auto", line |-> automsg ])
    /\ cur' = [cur EXCEPT !["auto"] = Len(events) + 1]
    /\ Start("auto", Len(events) + 1, << automsg >>, "loop")
    /\ UNCHANGED << proc, panicIn, conn, closes, channel, sinceLastMsg, budget, dialFails,
                    wire, sinceWrite >>

(* ---- the environment ---- *)
\* one second passes
\* g is neither asleep nor waiting for the console, the stream or the dial
Ready(g) ==
    \/ pc[g] \in { "msg", "write", "stamp", "connected", "config", "pass", "nick", "join", "go",
                   "handle", "return", "close", "exit" }
    \/ pc[g] \in { "wait", "backoff" } /\ timer[g] = 0
    \/ pc[g] = "sleepAuto" /\ timer[g] = 0 /\ autoFired < MaxAuto

Tick ==
    /\ Running
    /\ IF \E g \in Goroutines : Ready(g)
       THEN lag < MaxLag /\ lag' = lag + 1
       ELSE lag' = 0
    /\ sinceLastMsg' = ClockUp(sinceLastMsg)
    /\ sinceWrite' = ClockUp(sinceWrite)
    /\ timer' = [ g \in Goroutines |->
                    IF timer[g] > 0 /\ ~(g = "auto" /\ autoFired >= MaxAuto)
                    THEN timer[g] - 1 ELSE timer[g] ]
    /\ UNCHANGED << proc, panicIn, conn, closes, channel, pc, todo, ret, cur, sid, budget,
                    autoFired, dialFails, events, subs, wire, failed >>

\* the server drops the connection: main's pending read fails
PeerClose ==
    /\ Running /\ pc["main"] = "read" /\ conn = "open" /\ budget > 0
    /\ lag' = 0
    /\ budget' = budget - 1
    /\ DeferredClose

\* the server resets the connection while main is not in its read: from now on
\* the writes and the next read on it return an error
PeerReset ==
    /\ Running /\ pc["main"] # "read" /\ conn = "open" /\ budget > 0
    /\ lag' = 0
    /\ budget' = budget - 1
    /\ conn' = "broken"
    /\ UNCHANGED << proc, panicIn, closes, channel, sinceLastMsg, pc, todo, ret, timer, cur,
                    sid, autoFired, dialFails, events, subs, wire, sinceWrite, failed >>

Next ==
    \/ \E g \in Goroutines : MessageCheck(g)
    \/ \E g \in Goroutines : MessageWrite(g)
    \/ \E g \in Goroutines : MessageStamp(g)
    \/ \E g \in Goroutines : MessageRetry(g)
    \/ DialFail
    \/ Redial
    \/ DialOk
    \/ ConnectReturn
    \/ Configure
    \/ WritePass
    \/ WriteNick
    \/ WriteJoin
    \/ StartTasks
    \/ \E line \in InboundLines : ReadLine(line)
    \/ ReadError
    \/ HandleLine
    \/ MainReturn
    \/ \E g \in Consoles, text \in ConsoleLines : ConsoleLine(g, text)
    \/ \E g \in Consoles : ConsoleClose(g)
    \/ \E g \in Consoles : ConsoleExit(g)
    \/ AutoFire
    \/ PeerClose
    \/ PeerReset
    \/ Tick

Spec == Init /\ [][Next]_vars

(* ---- Bot.Message on its own: callers that hand it any text, the empty one
   included, in any state of the cooldown ---- *)
MessageTexts == { "", "hi" }

UnitInit ==
    /\ proc = "running"
    /\ panicIn = "none"
    /\ conn = "open"
    /\ closes = 0
    /\ channel = "#" \o flagChannel
    /\ sinceLastMsg \in 0..maxMsgTime
    /\ pc = [ g \in Goroutines |-> IF g \in Consoles THEN "readline" ELSE "off" ]
    /\ todo = [ g \in Goroutines |-> << >> ]
    /\ ret = [ g \in Goroutines |-> "loop" ]
    /\ timer = [ g \in Goroutines |-> 0 ]
    /\ cur = [ g \in Goroutines |-> 0 ]
    /\ sid = [ g \in Goroutines |-> 0 ]
    /\ budget = MaxLines + 1
    /\ autoFired = 0
    /\ dialFails = 0
    /\ events = << >>
    /\ subs = << >>
    /\ wire = << >>
    /\ sinceWrite = sinceLastMsg
    /\ failed = << >>
    /\ lag = 0

\* the caller g calls bot.Message(text)
MessageCall(g, text) ==
    /\ Running /\ pc[g] = "readline" /\ budget > 0
    /\ lag' = 0
    /\ UNCHANGED failed
    /\ budget' = budget - 1
    /\ events' = Append(events, [ by |-> g, line |-> text ])
    /\ cur' = [cur EXCEPT ![g] = Len(events) + 1]
    /\ Start(g, Len(events) + 1, << text >>, "loop")
    /\ UNCHANGED << proc, panicIn, conn, closes, channel, sinceLastMsg, autoFired, dialFails,
                    wire, sinceWrite >>

UnitNext ==
    \/ \E g \in Consoles, text \in MessageTexts : MessageCall(g, text)
    \/ \E g \in Consoles : MessageCheck(g)
    \/ \E g \in Consoles : MessageWrite(g)
    \/ \E g \in Consoles : MessageStamp(g)
    \/ \E g \in Consoles : MessageRetry(g)
    \/ Tick

UnitSpec == UnitInit /\ [][UnitNext]_vars

(* ---- what the claims speak of ---- *)
\* the positions of wire that hold chat lines (written by Message)
ChatWrites == { i \in 1..Len(wire) : wire[i].sub # 0 }

\* the positions of wire that hold the Message call k
WritesOf(k) == { i \in 1..Len(wire) : wire[i].sub = k }

\* the goroutines inside Message, between its cooldown check and its return
InMessage == { g \in Goroutines : pc[g] \in { "msg", "write", "stamp", "wait" } }

\* the channel owner and the privileged users, as the spec defines them
Owner == flagChannel
Privileged(user) == user \in mods \/ user = Owner

\* a chat line as its receiver reads it: the text after "PRIVMSG <channel> :",
\* without the line end, cut into words at blanks and line ends
Body(data) ==
    LET i == Index(data, " :")
    IN  SubSeq(data, i + 2, Len(data) - 2)

IsSpace(c) == c \in { " ", "\n", "\r" }

RECURSIVE Fields(_)
Fields(s) ==
    IF Len(s) = 0 THEN << >>
    ELSE IF IsSpace(SubSeq(s, 1, 1)) THEN Fields(SubSeq(s, 2, Len(s)))
    ELSE LET E == { i \in 1..Len(s) : IsSpace(SubSeq(s, i, i)) }
             n == IF E = {} THEN Len(s) + 1 ELSE Min(E)
         IN  << SubSeq(s, 1, n - 1) >> \o Fields(SubSeq(s, n, Len(s)))

Keywords == { "timeout", "ban", "unban" }

Confirmation(k) ==
    IF k = "timeout" THEN "Timed out user:"
    ELSE IF k = "ban" THEN "Banned user:" ELSE "Unbanned user:"

\* text is the directive k against target, or its confirmation
IsDirective(text, k, target) == Fields(text) = << "/" \o k, target >>
IsConfirmation(text, k, target) == Fields(text) = Fields(Confirmation(k)) \o << target >>

\* the Message calls made for the input e, and the chat lines written for it
CallsOf(e) == SelectSeq(subs, LAMBDA r : r.ev = e)
LinesOf(e) == SelectSeq(wire, LAMBDA w : w.sub # 0 /\ subs[w.sub].ev = e)

\* the place in subs of the n-th Message call made for the input e
CallIndex(e, n) ==
    LET K == { k \in 1..Len(subs) : subs[k].ev = e }
    IN  CHOOSE k \in K : Cardinality({ j \in K : j < k }) = n - 1

\* the handler of the input e has not finished
Pending(e) ==
    LET g == events[e].by
    IN  cur[g] = e /\ pc[g] \in { "handle", "msg", "write", "stamp", "wait", "close", "exit" }

PanickedOn(e) == panicIn = events[e].by /\ cur[panicIn] = e

(* C1: whatever the interleaving of the senders, no chat line is written to the
   connection less than maxMsgTime seconds after the chat line before it. *)
C1_MinInterval == \A i \in ChatWrites : wire[i].gap >= maxMsgTime

(* C2: a non-empty message handed to Message while the session is running is
   written to the connection, and exactly once.  Checked where the program has
   stopped through the console's quit: nothing handed over is then left unwritten
   or written twice. *)
C2_DeliveredOnce ==
    proc = "exited" =>
        \A k \in 1..Len(subs) :
            subs[k].up /\ subs[k].text # "" => Cardinality(WritesOf(k)) = 1

(* C3: messages are written to the connection in the order in which they were
   handed to Message. *)
C3_SubmissionOrder ==
    \A i, j \in ChatWrites : i < j => wire[i].sub < wire[j].sub

(* C4: no directive /timeout, /ban or /unban whose target is a moderator or the
   channel owner is written to the connection (stated for the calls made while
   the session is running). *)
C4_NoDirectiveAgainstPrivileged ==
    \A i \in ChatWrites :
        subs[wire[i].sub].up =>
            ~ \E k \in Keywords, u \in ChatUsers :
                Privileged(u) /\ IsDirective(Body(wire[i].data), k, u)

(* C5: a chat command of a user who is neither a moderator nor the channel owner
   makes the bot hand exactly one message to Message, the rejection naming the
   user; no directive and no confirmation is handed over. *)
C5_NonModeratorRejected ==
    \A e \in 1..Len(events) :
        \A u \in ChatUsers, m \in ChatMessages :
            ( /\ events[e].by = "main"
              /\ events[e].line = ChatLine(u, m)
              /\ HasPrefix(m, "!")
              /\ ~Privileged(u) )
            => IF cur["main"] = e /\ pc["main"] = "handle"
               THEN CallsOf(e) = << >>
               ELSE /\ Len(CallsOf(e)) = 1
                    /\ CallsOf(e)[1].text = "You are not a mod " \o u

C5_Witness ==
    \E e \in 1..Len(events) :
        /\ events[e].line = ChatLine("bob", "!ban ann")
        /\ Len(CallsOf(e)) = 1
        /\ LinesOf(e) # << >>

\* the commands of a privileged issuer against the target, from chat and console
CommandLines(k, target) ==
    { ChatLine(Owner, "!" \o k \o " " \o target), "!" \o k \o " " \o target \o "\n" }

(* C6: a timeout, ban or unban of a target that is not privileged hands Message
   the directive and then the confirmation; on the connection the directive comes
   first, each is written at most once, and once the handler has finished on an
   open connection both are there. *)
C6_DirectiveThenConfirmation ==
    \A e \in 1..Len(events) :
        \A k \in Keywords, t \in { "ann" } :
            ( events[e].line \in CommandLines(k, t) /\ events[e].by # "auto"
              /\ ~Privileged(t) )
            => LET C == CallsOf(e)
                   L == LinesOf(e)
               IN  /\ Len(C) <= 2 /\ Len(L) <= Len(C)
                   /\ Len(C) >= 1 => IsDirective(C[1].text, k, t)
                   /\ Len(C) >= 2 => IsConfirmation(C[2].text, k, t)
                   /\ \A n \in 1..Len(L) : L[n].sub = CallIndex(e, n)
                   /\ Len(L) >= 1 => IsDirective(Body(L[1].data), k, t)
                   /\ Len(L) >= 2 => IsConfirmation(Body(L[2].data), k, t)
                   /\ (~Pending(e) /\ conn = "open") => Len(L) = 2

C6_Witness ==
    \E e \in 1..Len(events) :
        /\ events[e].line = ChatLine(Owner, "!ban ann")
        /\ ~Pending(e)
        /\ Len(LinesOf(e)) = 2
        /\ IsDirective(Body(LinesOf(e)[1].data), "ban", "ann")
        /\ IsConfirmation(Body(LinesOf(e)[2].data), "ban", "ann")

(* C7: for a ping line the loop writes the one reply PONG <token> straight to the
   connection: no call of Message, bot.lastMsg as it was, and the loop reads on. *)
C7_PongDirect ==
    [][ \A token \in { ":tmi.twitch.tv" } :
          ( /\ pc["main"] = "handle"
            /\ events[cur["main"]].line = "PING " \o token
            /\ conn = "open"
            /\ pc'["main"] # "handle" )
          => /\ Len(wire') = Len(wire) + 1
             /\ SubSeq(wire', 1, Len(wire)) = wire
             /\ wire'[Len(wire')].data = "PONG " \o token
             /\ wire'[Len(wire')].sub = 0
             /\ subs' = subs
             /\ sinceLastMsg' = sinceLastMsg
             /\ pc'["main"] = "read"
             /\ proc' = "running" ]_vars

\* the reply has gone out while the limiter was in its cooldown
C7_Witness ==
    /\ wire # << >>
    /\ wire[Len(wire)].data = "PONG :tmi.twitch.tv"
    /\ sinceLastMsg < maxMsgTime
    /\ pc["main"] = "read"

(* C8: a line of none of the known shapes (an empty line and a line of fewer than
   four words among them) is dropped: no panic, no call of Message. *)
UnrecognizedLines == { "", ":tmi.twitch.tv CAP", ":tmi.twitch.tv 001 testbot :Welcome, GLHF!" }

C8_UnrecognizedDropped ==
    \A e \in 1..Len(events) :
        events[e].by = "main" /\ events[e].line \in UnrecognizedLines
        => ~PanickedOn(e) /\ CallsOf(e) = << >>

(* C9: a timeout, ban or unban without a target, from a moderator in chat or
   from the console, is dropped: no panic, no call of Message. *)
TargetlessCommands == { ChatLine(Owner, "!unban"), "!ban\n" }

C9_TargetlessDropped ==
    \A e \in 1..Len(events) :
        events[e].by # "auto" /\ events[e].line \in TargetlessCommands
        => ~PanickedOn(e) /\ CallsOf(e) = << >>

(* C10: a chat line of a user who is not privileged, not a command, whose message
   holds one of the suffixes anywhere, makes the bot hand Message exactly one
   timeout directive against the sender, and no rejection of a command. *)
C10_LinkAnywhereTimedOut ==
    \A e \in 1..Len(events) :
        \A u \in ChatUsers, m \in ChatMessages :
            ( /\ events[e].by = "main"
              /\ events[e].line = ChatLine(u, m)
              /\ ~HasPrefix(m, "!")
              /\ \E n \in 1..Len(suffixes) : Contains(m, suffixes[n])
              /\ ~Privileged(u)
              /\ ~(cur["main"] = e /\ pc["main"] = "handle") )
            => LET C == CallsOf(e)
               IN  /\ Cardinality({ n \in 1..Len(C) : IsDirective(C[n].text, "timeout", u) }) = 1
                   /\ \A n \in 1..Len(C) : ~HasPrefix(C[n].text, "You are not a mod")

(* C11: once the console has read a line starting with !quit, the farewell is
   written to the connection before the quit path closes it: the handler of the
   line does not end in a panic, and when it has closed the connection the
   farewell is on the wire. *)
C11_FarewellBeforeClose ==
    \A e \in 1..Len(events) :
        events[e].by \in Consoles /\ HasPrefix(events[e].line, "!quit")
        => /\ ~PanickedOn(e)
           /\ pc[events[e].by] = "exit" /\ cur[events[e].by] = e
              => /\ Len(LinesOf(e)) = 1
                 /\ Body(LinesOf(e)[1].data) = farewell

(* C12: in every execution bot.conn.Close() is called at most once. *)
C12_ClosedOnce == closes <= 1

(* C13: a write that fails on the established connection ends the session: no
   further write is attempted on that connection, so at most one write ever
   returns an error. *)
C13_FailedWriteFatal == Len(failed) <= 1

(* C14: every line written to the connection (handshake, PRIVMSG, PONG) ends
   with carriage return and newline. *)
HasSuffix(s, suffix) ==
    /\ Len(s) >= Len(suffix)
    /\ SubSeq(s, Len(s) - Len(suffix) + 1, Len(s)) = suffix

C14_LinesTerminated == \A i \in 1..Len(wire) : HasSuffix(wire[i].data, "\r\n")

(* C16: the first three lines on the connection are the credential, the nickname
   and the channel join, in that order, so nothing of another task is written
   before them; and no write is attempted while bot.conn is still nil. *)
C16_HandshakeFirst ==
    /\ \A i \in 1..Len(wire) :
          i <= 3 => wire[i].data = << passLine, nickLine, joinLine >>[i]
    /\ ~(conn = "nil" /\ panicIn # "none" /\ pc[panicIn] = "write")

(* C18: a command line of a moderator produces a moderation action only when its
   first word is exactly !timeout, !ban or !unban in any letter case, and then
   against the word after it in its original letter case; any other first word
   produces no call of Message. *)
C18_KeywordExact ==
    \A e \in 1..Len(events) :
        \A m \in ChatMessages :
            ( /\ events[e].by = "main"
              /\ events[e].line = ChatLine(Owner, m)
              /\ HasPrefix(m, "!")
              /\ ~(cur["main"] = e /\ pc["main"] = "handle") )
            => LET words == Split(m, " ")
                   keyword == ToLower(SubSeq(words[1], 2, Len(words[1])))
                   C == CallsOf(e)
               IN  IF keyword \notin Keywords THEN C = << >>
                   ELSE (Len(words) >= 2 /\ ~Privileged(words[2]))
                        => /\ Len(C) >= 1
                           /\ C[1].text = "/" \o keyword \o " " \o words[2]

(* C19: once bot.conn has been closed no task writes to it again. *)
C19_NoWriteAfterClose == \A i \in 1..Len(failed) : failed[i].on # "closed"

(* C20: a console line that does not start with ! is handed to Message if and
   only if it is not empty; a line that is only the line end, and the end of the
   input, cause no call of Message. *)
C20_ConsoleChatIffNonEmpty ==
    \A e \in 1..Len(events) :
        ( events[e].by \in Consoles /\ ~HasPrefix(events[e].line, "!") )
        => IF events[e].line \in { "", "\n" }
           THEN CallsOf(e) = << >>
           ELSE /\ Len(CallsOf(e)) = 1
                /\ CallsOf(e)[1].text = events[e].line

(* C15: a call of Message with the empty text returns at once: nothing is written
   to the connection, no write is attempted, bot.lastMsg stays as it was and the
   caller is not put to sleep, in and out of the cooldown. *)
C15_EmptyMessageNoOp ==
    [][ \A g \in Goroutines :
          ( /\ pc[g] = "msg"
            /\ Head(todo[g]) = ""
            /\ pc'[g] # "msg" )
          => /\ wire' = wire
             /\ failed' = failed
             /\ sinceLastMsg' = sinceLastMsg
             /\ sinceWrite' = sinceWrite
             /\ pc'[g] = LoopPc(g)
             /\ timer'[g] = 0 ]_vars

\* the empty text was handed over in the cooldown and its caller is back in its loop
C15_Witness ==
    \E e \in 1..Len(events) :
        /\ events[e].line = ""
        /\ CallsOf(e) # << >>
        /\ cur[events[e].by] = e
        /\ pc[events[e].by] = "readline"
        /\ wire = << >>
        /\ sinceLastMsg < maxMsgTime

(* C17: Connect dials again after every failed dial, once its wait is over, and
   returns only after a dial that succeeded: main goes on to the handshake with
   bot.conn set, and nothing is written to the connection before that. *)
C17_ConnectReturnsConnected ==
    [][ /\ pc["main"] = "backoff" /\ pc'["main"] # "backoff"
           => timer["main"] = 0 /\ pc'["main"] = "dial"
        /\ pc["main"] = "dial" /\ pc'["main"] # "dial"
           => \/ pc'["main"] = "backoff" /\ conn' = "nil" /\ timer'["main"] = dialSleep
              \/ pc'["main"] = "connected" /\ conn' = "open"
        /\ pc["main"] = "connected" /\ pc'["main"] # "connected"
           => pc'["main"] = "config" /\ conn' # "nil"
        /\ pc["main"] \in { "dial", "backoff", "connected" }
           => \A i \in 1..Len(wire') : wire'[i].data \notin { passLine, nickLine, joinLine } ]_vars

\* Connect is about to return on the established connection after a failed dial
C17_Witness ==
    /\ pc["main"] = "connected"
    /\ dialFails >= 1
    /\ conn = "open"

====
